---- MODULE Spec2Model ----
(***************************************************************************)
(* Model of the build-repair loop of rlm/core/rust_auto_fix.py             *)
(* (auto_fix_rust_project and the helpers it calls).                       *)
(*                                                                         *)
(* Text is modelled line by line: a response, a fenced block's body and a  *)
(* file's content are sequences of lines; the lines come from a finite     *)
(* lexicon whose properties (is it a fence, which path does a FILE: line   *)
(* declare, which canonical file names does it mention, how long is it)    *)
(* are tabulated below.  Fences are assumed to start a line of their own.  *)
(***************************************************************************)
EXTENDS Integers, Sequences, FiniteSets, TLC

\* ------------------------------------------------------------------------
\* Bounds of the model
\* ------------------------------------------------------------------------

\* largest max_iterations a caller passes in the model (0 is included)
MaxBudget == 3

\* ------------------------------------------------------------------------
\* Lexicon of lines
\* ------------------------------------------------------------------------

\* lines that are whitespace only
BlankLines == {"", "  "}

\* lines that open or close a fenced block; [fence] stands for the three
\* backquotes, which a TLA+ string cannot hold
FenceLines == {"[fence]", "[fence]rust", "[fence]toml", "[fence]python"}

IsBlank(l) == l \in BlankLines

IsFence(l) == l \in FenceLines

\* the language tag that follows the fence
FenceTag(l) ==
    CASE l = "[fence]rust" -> "rust"
      [] l = "[fence]toml" -> "toml"
      [] l = "[fence]python" -> "python"
      [] OTHER -> ""

\* a fence line whose tag is rust, toml or absent: the opening fence the patterns accept
OpensBlock(l) == IsFence(l) /\ FenceTag(l) \in {"", "rust", "toml"}

\* group(1).strip() of pattern1 for a line that carries "FILE:" (any case);
\* "" for a line without the marker
MarkerPath(l) ==
    CASE l = "FILE: src/main.rs" -> "src/main.rs"
      [] l = "FILE: Cargo.toml" -> "Cargo.toml"
      [] l = "FILE: src/util.rs" -> "src/util.rs"
      [] l = "file:   src/main.rs  " -> "src/main.rs"
      [] l = "file:   src/main.rs" -> "src/main.rs"
      [] l = "FILE: /tmp/evil.rs" -> "/tmp/evil.rs"
      [] l = "FILE: ../evil.rs" -> "../evil.rs"
      [] l = "FILE: app/src/main.rs" -> "app/src/main.rs"
      [] l = "FILE: src/lib.rs" -> "src/lib.rs"
      [] l = "FILE: target/gen.rs" -> "target/gen.rs"
      [] OTHER -> ""

HasMarker(l) == MarkerPath(l) # ""

\* the canonical file names of pattern2 that occur in the line
Mentions(l) ==
    CASE l \in {"FILE: src/main.rs", "file:   src/main.rs  ", "file:   src/main.rs",
                "FILE: app/src/main.rs", "Fix for src/main.rs:"} -> {"src/main.rs"}
      [] l \in {"FILE: Cargo.toml", "Update Cargo.toml:"} -> {"Cargo.toml"}
      [] l \in {"FILE: src/lib.rs", "And src/lib.rs:"} -> {"src/lib.rs"}
      [] l = "Cargo.toml and src/main.rs:" -> {"Cargo.toml", "src/main.rs"}
      [] OTHER -> {}

\* the first canonical name of the line, where a pattern2 match starts
FirstMention(l) ==
    CASE l = "Cargo.toml and src/main.rs:" -> "Cargo.toml"
      [] Mentions(l) = {} -> ""
      [] OTHER -> CHOOSE m \in Mentions(l) : TRUE

\* len(line)
LineLen(l) ==
    CASE l = "" -> 0
      [] l = "  " -> 2
      [] l = "[fence]" -> 3
      [] l = "[fence]rust" -> 7
      [] l = "[fence]toml" -> 7
      [] l = "[fence]python" -> 9
      [] l = "FILE: src/main.rs" -> 17
      [] l = "FILE: Cargo.toml" -> 16
      [] l = "FILE: src/util.rs" -> 17
      [] l = "file:   src/main.rs  " -> 21
      [] l = "file:   src/main.rs" -> 19
      [] l = "FILE: /tmp/evil.rs" -> 18
      [] l = "FILE: ../evil.rs" -> 16
      [] l = "FILE: app/src/main.rs" -> 21
      [] l = "FILE: src/lib.rs" -> 16
      [] l = "FILE: target/gen.rs" -> 19
      [] l = "Fix for src/main.rs:" -> 20
      [] l = "Update Cargo.toml:" -> 18
      [] l = "And src/lib.rs:" -> 15
      [] l = "Cargo.toml and src/main.rs:" -> 27
      [] l = "fn main() {}" -> 12
      [] l = "fn main() { run(); }" -> 20
      [] l = "fn main() { old(); }" -> 20
      [] l = "use std::io;" -> 12
      [] l = "[package]" -> 9
      [] l = "[dependencies]" -> 14
      [] l = "rand = \"0.8\"" -> 12
      [] l = "I could not find the error." -> 27
      [] l = "fn main() {" -> 11
      [] l = "}" -> 1
      [] l = "    println!(\"Hello, world!\");" -> 30
      [] l = "println!(\"Hello, world!\");" -> 26
      [] l = "let total: u64 = values.iter().map(|v| u64::from(*v)).filter(|v| v % 2 == 0).sum::<u64>() + offset;" -> 99
      [] l = "println!(\"The total of the even values and the number of values that were read go to the caller.\");" -> 99
      [] l = "// Placeholder for the rest of the conversion, which goes through the original program line by line." -> 100
      [] l = "You can use the standard library as it is; the entry point of the program stays fn main and nothing else has to change there." -> 125
      [] l = "use the standard library as it is; the entry point of the program stays fn main and nothing else has to change there." -> 117
      [] l = "Here is the program." -> 20
      [] l = "fn add(a: i32, b: i32) -> i32 { a + b }" -> 39
      [] l = "fn sub(a: i32, b: i32) -> i32 { a - b - 0 }" -> 43
      [] l = "FINAL(" -> 6
      [] l = ")" -> 1
      [] OTHER -> 10

\* column at which the first canonical name of the line starts
MentionCol(l) ==
    CASE l = "FILE: src/main.rs" -> 6
      [] l = "FILE: Cargo.toml" -> 6
      [] l = "file:   src/main.rs  " -> 8
      [] l = "file:   src/main.rs" -> 8
      [] l = "FILE: app/src/main.rs" -> 10
      [] l = "FILE: src/lib.rs" -> 6
      [] l = "Fix for src/main.rs:" -> 8
      [] l = "Update Cargo.toml:" -> 7
      [] l = "And src/lib.rs:" -> 4
      [] OTHER -> 0

\* ------------------------------------------------------------------------
\* Text helpers
\* ------------------------------------------------------------------------

Min(S) == CHOOSE x \in S : \A y \in S : x <= y

RECURSIVE StripLeft(_)
\* leading whitespace removed: the leading blank lines go
StripLeft(ls) ==
    IF ls # <<>> /\ IsBlank(Head(ls)) THEN StripLeft(Tail(ls)) ELSE ls

RECURSIVE StripRight(_)
\* trailing whitespace removed: the trailing blank lines go
StripRight(ls) ==
    IF ls # <<>> /\ IsBlank(ls[Len(ls)])
    THEN StripRight(SubSeq(ls, 1, Len(ls) - 1))
    ELSE ls

\* a line without its trailing spaces
RTrim(l) == IF l = "file:   src/main.rs  " THEN "file:   src/main.rs" ELSE l

\* a line without its leading spaces
LTrim(l) == IF l = "    println!(\"Hello, world!\");" THEN "println!(\"Hello, world!\");" ELSE l

\* str.strip()
Strip(ls) ==
    LET core == StripRight(StripLeft(ls))
        last == IF core = <<>> THEN core
                ELSE [core EXCEPT ![Len(core)] = RTrim(core[Len(core)])]
    IN  IF last = <<>> THEN last
        ELSE [last EXCEPT ![1] = LTrim(last[1])]

RECURSIVE TextLen(_)
\* len() of a block of lines, each line ended by its newline
TextLen(ls) ==
    IF ls = <<>> THEN 0 ELSE LineLen(Head(ls)) + 1 + TextLen(Tail(ls))

\* index of the first fence line at or after from, 0 when there is none
NextFence(lines, from) ==
    LET S == {k \in from..Len(lines) : IsFence(lines[k])}
    IN  IF S = {} THEN 0 ELSE Min(S)

\* index of the first non-blank line at or after from, 0 when there is none
NextNonBlank(lines, from) ==
    LET S == {k \in from..Len(lines) : ~IsBlank(lines[k])}
    IN  IF S = {} THEN 0 ELSE Min(S)

\* the text captured between the opening fence j and the closing fence k;
\* the whitespace run after the opening fence has swallowed leading blank lines
Captured(lines, j, k) == StripLeft(SubSeq(lines, j + 1, k - 1))

\* ------------------------------------------------------------------------
\* Dict[str, str] with insertion order: a sequence of entries, keys unique
\* ------------------------------------------------------------------------

DictKeys(d) == {d[i].path : i \in DOMAIN d}

DictGet(d, key) == d[CHOOSE i \in DOMAIN d : d[i].path = key].content

\* d[key] = value
DictSet(d, key, value) ==
    IF key \in DictKeys(d)
    THEN [i \in DOMAIN d |->
            IF d[i].path = key THEN [path |-> key, content |-> value] ELSE d[i]]
    ELSE Append(d, [path |-> key, content |-> value])

\* ------------------------------------------------------------------------
\* extract_file_modifications
\* ------------------------------------------------------------------------

\* pattern1 tried at line i: the FILE: line, blank lines, an opening fence,
\* the body up to the next fence.  k = 0 when it does not match there.
Pattern1At(lines, i) ==
    LET j == NextNonBlank(lines, i + 1)
        k == IF j # 0 /\ OpensBlock(lines[j]) THEN NextFence(lines, j + 1) ELSE 0
    IN  [j |-> j, k |-> IF HasMarker(lines[i]) THEN k ELSE 0]

RECURSIVE Pattern1(_, _, _)
\* the finditer loop of pattern1 from line pos on
Pattern1(lines, pos, d) ==
    LET S == {i \in pos..Len(lines) : Pattern1At(lines, i).k # 0}
    IN  IF S = {} THEN d
        ELSE LET i == Min(S)
                 m == Pattern1At(lines, i)
             IN  Pattern1(lines, m.k + 1,
                          DictSet(d, MarkerPath(lines[i]),
                                  Strip(Captured(lines, m.j, m.k))))

\* pattern2 tried from the canonical name of line i: lazily to the first
\* opening fence below, the body up to the next fence
Pattern2At(lines, i) ==
    LET J == {j \in (i + 1)..Len(lines) :
                 OpensBlock(lines[j]) /\ NextFence(lines, j + 1) # 0}
        j == IF J = {} THEN 0 ELSE Min(J)
    IN  [j |-> j,
         k |-> IF Mentions(lines[i]) # {} /\ j # 0 THEN NextFence(lines, j + 1) ELSE 0]

RECURSIVE Offset(_, _, _)
\* number of characters from the start of the match (in line i) to the end of line m
Offset(lines, i, m) ==
    IF m = i THEN LineLen(lines[i]) - MentionCol(lines[i])
    ELSE Offset(lines, i, m - 1) + 1 + LineLen(lines[m])

ContextLen == 100

\* column just past the first occurrence of a canonical name in the line
NameEnd(l, name) ==
    CASE l = "FILE: src/main.rs" /\ name = "src/main.rs" -> 17
      [] l = "FILE: Cargo.toml" /\ name = "Cargo.toml" -> 16
      [] l = "file:   src/main.rs  " /\ name = "src/main.rs" -> 19
      [] l = "file:   src/main.rs" /\ name = "src/main.rs" -> 19
      [] l = "FILE: app/src/main.rs" /\ name = "src/main.rs" -> 21
      [] l = "FILE: src/lib.rs" /\ name = "src/lib.rs" -> 16
      [] l = "Fix for src/main.rs:" /\ name = "src/main.rs" -> 19
      [] l = "Update Cargo.toml:" /\ name = "Cargo.toml" -> 17
      [] l = "And src/lib.rs:" /\ name = "src/lib.rs" -> 14
      [] l = "Cargo.toml and src/main.rs:" /\ name = "src/main.rs" -> 26
      [] l = "Cargo.toml and src/main.rs:" /\ name = "Cargo.toml" -> 10
      [] OTHER -> 0

\* the occurrence of the name in line n ends within the first 100 characters
\* of the match that starts in line i
InContext(lines, i, n, name) ==
    /\ name \in Mentions(lines[n])
    /\ IF n = i
       THEN NameEnd(lines[i], name) - MentionCol(lines[i]) <= ContextLen
       ELSE Offset(lines, i, n - 1) + 1 + NameEnd(lines[n], name) <= ContextLen

\* the canonical names found in match.group(0)[:100]
ContextMentions(lines, i, k) ==
    {name \in {"src/main.rs", "Cargo.toml", "src/lib.rs"} :
        \E n \in i..k : InContext(lines, i, n, name)}

\* the if/elif chain on the context
ContextKey(names) ==
    IF "src/main.rs" \in names THEN "src/main.rs"
    ELSE IF "Cargo.toml" \in names THEN "Cargo.toml"
    ELSE "src/lib.rs"

RECURSIVE Pattern2(_, _, _)
\* the finditer loop of pattern2 from line pos on
Pattern2(lines, pos, d) ==
    LET S == {i \in pos..Len(lines) : Pattern2At(lines, i).k # 0}
    IN  IF S = {} THEN d
        ELSE LET i == Min(S)
                 m == Pattern2At(lines, i)
             IN  Pattern2(lines, m.k + 1,
                          DictSet(d, ContextKey(ContextMentions(lines, i, m.k)),
                                  Strip(Captured(lines, m.j, m.k))))

RECURSIVE FindBlocks(_, _, _)
\* re.findall of a fence with the given tag: the captured bodies, in order
FindBlocks(lines, tag, pos) ==
    LET S == {j \in pos..Len(lines) :
                 IsFence(lines[j]) /\ FenceTag(lines[j]) = tag
                 /\ NextFence(lines, j + 1) # 0}
    IN  IF S = {} THEN <<>>
        ELSE LET j == Min(S)
                 k == NextFence(lines, j + 1)
             IN  <<Captured(lines, j, k)>> \o FindBlocks(lines, tag, k + 1)

\* the first block of minimal length
Shortest(blocks) ==
    blocks[Min({i \in DOMAIN blocks :
                  \A n \in DOMAIN blocks : TextLen(blocks[i]) <= TextLen(blocks[n])})]

\* max(matches, key=len): the first block of maximal length
Longest(blocks) ==
    blocks[Min({i \in DOMAIN blocks :
                  \A n \in DOMAIN blocks : TextLen(blocks[n]) <= TextLen(blocks[i])})]

\* the two tests before max(): nothing found so far, and some rust block
Pattern3Fires(d, blocks) == d = <<>> /\ blocks # <<>>

\* pattern 3: only when nothing was found so far
Pattern3(lines, d) ==
    LET blocks == FindBlocks(lines, "rust", 1)
    IN  IF Pattern3Fires(d, blocks)
        THEN DictSet(d, "src/main.rs", Strip(Longest(blocks)))
        ELSE d

\* a first element taken without the test
Pattern4FiresAlways(blocks) == TRUE

\* the test before matches[0]: some toml block
Pattern4Fires(blocks) == blocks # <<>>

\* pattern 4: the first toml block, whatever was found so far
Pattern4(lines, d) ==
    LET blocks == FindBlocks(lines, "toml", 1)
    IN  IF Pattern4Fires(blocks) THEN DictSet(d, "Cargo.toml", Strip(blocks[1])) ELSE d

extract_file_modifications(text) ==
    Pattern4(text,
        Pattern3(text,
            Pattern2(text, 1,
                Pattern1(text, 1, <<>>))))

\* the dict after each of the four patterns
ExtractionSteps(text) ==
    LET d1 == Pattern1(text, 1, <<>>)
        d2 == Pattern2(text, 1, d1)
        d3 == Pattern3(text, d2)
    IN  [p1 |-> d1, p2 |-> d2, p3 |-> d3, p4 |-> Pattern4(text, d3)]

\* does the function raise: max() of an empty list in pattern 3, element 0
\* of an empty list in pattern 4; nothing else in it can raise on a str
ExtractionRaises(text) ==
    LET d2 == Pattern2(text, 1, Pattern1(text, 1, <<>>))
        rust == FindBlocks(text, "rust", 1)
        toml == FindBlocks(text, "toml", 1)
    IN  \/ Pattern3Fires(d2, rust) /\ rust = <<>>
        \/ Pattern4Fires(toml) /\ toml = <<>>

\* ------------------------------------------------------------------------
\* The project directory
\* ------------------------------------------------------------------------

\* the paths a reply of the lexicon can declare, and the canonical ones
Paths == {"src/main.rs", "Cargo.toml", "src/lib.rs", "src/util.rs",
          "app/src/main.rs", "/tmp/evil.rs", "../evil.rs", "target/gen.rs"}

\* Path(project_dir) / relative_path: an absolute right operand replaces the
\* left one, and a leading .. climbs out of the project directory
TargetOf(relative_path) ==
    [inside |-> relative_path \notin {"/tmp/evil.rs", "../evil.rs"},
     path |-> relative_path]

Locations == {TargetOf(p) : p \in Paths}

NoFile == [exists |-> FALSE, text |-> <<>>]

File(text) == [exists |-> TRUE, text |-> text]

\* the project as it is when the repair loop starts
InitialTree ==
    [loc \in Locations |->
        IF loc = TargetOf("src/main.rs") THEN File(<<"fn main() { old(); }">>)
        ELSE IF loc = TargetOf("Cargo.toml") THEN File(<<"[package]">>)
        ELSE NoFile]

\* what is left in the file when the write fails after open(.., 'w') has
\* truncated it: nothing, or the part that reached the disk
CutTexts(content) ==
    {SubSeq(content, 1, n) : n \in {m \in 0..Len(content) : m < Len(content) \/ m = 0}}

\* a write that opens the file for appending
write_file_content_append(tree, relative_path, content) ==
    LET loc == TargetOf(relative_path)
    IN  {[ok |-> TRUE, tree |-> [tree EXCEPT ![loc] = File(tree[loc].text \o content)]],
         [ok |-> FALSE, tree |-> tree]}

\* write_file_content: the possible outcomes [ok, tree] of one call.
\*   - the write goes through: the file holds content, True;
\*   - mkdir or open raises: the tree is untouched, False;
\*   - f.write or the closing flush raises after the truncation: False.
write_file_content(tree, relative_path, content) ==
    LET loc == TargetOf(relative_path)
    IN  {[ok |-> TRUE, tree |-> [tree EXCEPT ![loc] = File(content)]]}
          \cup {[ok |-> FALSE, tree |-> tree]}
          \cup {[ok |-> FALSE, tree |-> [tree EXCEPT ![loc] = File(t)]] :
                   t \in CutTexts(content)}

\* the directories a path goes through, below project_dir
DirsOf(path) ==
    CASE path \in {"src/main.rs", "src/lib.rs", "src/util.rs"} -> {"src"}
      [] path = "app/src/main.rs" -> {"app", "src"}
      [] path = "target/gen.rs" -> {"target"}
      [] OTHER -> {}

\* the files os.walk reaches: those below project_dir, the directories
\* named target, .git and node_modules being pruned
Walked(tree) ==
    {loc \in DOMAIN tree :
        /\ loc.inside
        /\ tree[loc].exists
        /\ DirsOf(loc.path) \cap {"target", ".git", "node_modules"} = {}}

\* get_project_structure: the listing of the files that the walk reaches
get_project_structure(tree) == {loc.path : loc \in Walked(tree)}

\* read_project_files: {relative path: content} of the files of the walk
\* that end in .rs, .toml or .md (every open and read goes through)
read_project_files(tree) ==
    LET \* the part of the file name that endswith() looks at
        Extension(path) == IF path = "Cargo.toml" THEN ".toml" ELSE ".rs"
        relevant == {loc \in Walked(tree) :
                        Extension(loc.path) \in {".rs", ".toml", ".md"}}
    IN  [path \in {loc.path : loc \in relevant} |-> tree[TargetOf(path)].text]

\* a prompt that shows the project as it was when the loop started
build_auto_fix_prompt_stale(tree, cargo_output, it, max) ==
    [iteration |-> it,
     max_iterations |-> max,
     structure |-> get_project_structure(InitialTree),
     files |-> read_project_files(InitialTree),
     cargo_output |-> cargo_output]

\* build_auto_fix_prompt: the parts of the prompt that vary (the header
\* "Iteracion i/max", the listing, one FILE: section for each file read,
\* the transcript); the instructions that follow are a fixed text
build_auto_fix_prompt(tree, cargo_output, it, max) ==
    [iteration |-> it,
     max_iterations |-> max,
     structure |-> get_project_structure(tree),
     files |-> read_project_files(tree),
     cargo_output |-> cargo_output]

\* ------------------------------------------------------------------------
\* The collaborators
\* ------------------------------------------------------------------------

\* the texts the oracle answers with in the model
OracleReplies ==
    { <<"I could not find the error.">>,
      <<"FILE: src/main.rs", "[fence]rust", "fn main() {}">>,
      <<"FILE: src/main.rs", "[fence]rust", "fn main() {}", "[fence]">>,
      <<"FILE: src/main.rs", "[fence]rust", "use std::io;", "fn main() { run(); }", "[fence]">>,
      <<"FILE: src/util.rs", "[fence]rust", "use std::io;", "[fence]", "",
        "[fence]toml", "[package]", "[dependencies]", "[fence]">>,
      <<"FILE: /tmp/evil.rs", "[fence]rust", "fn main() {}", "[fence]",
        "FILE: target/gen.rs", "[fence]rust", "use std::io;", "[fence]">>,
      <<"FILE: ../evil.rs", "[fence]rust", "fn main() {}", "[fence]">> }

\* what rlm.completion does: it raises, it returns an object that carries no
\* text (handling it raises), or it returns a text
OracleOutcomes ==
    {[kind |-> "raises", text |-> <<>>], [kind |-> "not_text", text |-> <<>>]}
      \cup {[kind |-> "text", text |-> r] : r \in OracleReplies}

\* the transcript of the n-th build of the run; 0 stands for the unbound name
Transcript(n) == [build |-> n]

Unbound == Transcript(0)

\* ------------------------------------------------------------------------
\* auto_fix_rust_project
\* ------------------------------------------------------------------------

VARIABLES
    max_iterations,  \* the argument
    iteration,       \* the local counter
    output,          \* the local holding the last transcript
    modifications,   \* the PatchSet extracted last
    todo,            \* index of the next entry of the for loop over modifications
    pc,              \* while, build, request, apply, returned, raised
    result,          \* the returned tuple, <<>> before the return
    files,           \* the files on disk
    log              \* every build, oracle round-trip and write so far, in order

\* State of the checks of the text functions, each applied on its own to
\* inputs put together from small parts
VARIABLES
    stage,           \* compose, then the steps of the function under check
    response,        \* the response text, a sequence of lines
    parts,           \* number of parts the input is made of
    steps,           \* the PatchSet after each pattern of extract_file_modifications
    patchset,        \* what extract_file_modifications returned
    exception,       \* an exception came out of the function under check
    roundtrip,       \* the PatchSet extracted from the serialised patchset
    artifact,        \* what extract_rust_code returned
    dependencies,    \* the DependencySet handed to update_cargo_dependencies
    history          \* the content of Cargo.toml at the start and after each merge

inputVars == <<stage, response, parts, exception>>

patchVars == <<steps, patchset, roundtrip>>

mergeVars == <<dependencies, history>>

textVars == <<inputVars, patchVars, artifact, mergeVars>>

loopVars == <<max_iterations, iteration, output, modifications, todo, pc, result, files, log>>

vars == <<loopVars, textVars>>

NoSteps == [p1 |-> <<>>, p2 |-> <<>>, p3 |-> <<>>, p4 |-> <<>>]

\* the text functions are not under check
TextIdle ==
    /\ stage = "idle"
    /\ response = <<>>
    /\ parts = 0
    /\ steps = NoSteps
    /\ patchset = <<>>
    /\ exception = FALSE
    /\ roundtrip = <<>>
    /\ artifact = [found |-> FALSE, code |-> <<>>]
    /\ dependencies = <<>>
    /\ history = <<>>

Init ==
    /\ max_iterations \in 0..MaxBudget
    /\ iteration = 0
    /\ output = Unbound
    /\ modifications = <<>>
    /\ todo = 0
    /\ pc = "while"
    /\ result = <<>>
    /\ files = InitialTree
    /\ log = <<>>
    /\ TextIdle

\* a loop that admits one iteration too many
LoopGuardOffByOne(it, max) == it <= max

\* the loop condition
LoopGuard(it, max) == it < max

\* a repair requested after every failed build
RepairAlways(it, max) == TRUE

\* "Si no es el ultimo intento": is the oracle asked after this failed build
RepairAllowed(it, max) == it < max

\* a build whose success is not looked at
AfterBuildNoReturn(success, it, max) ==
    IF RepairAllowed(it, max) THEN "request" ELSE "while"

\* where the build leads: the return on success, the repair round-trip or
\* the loop condition on failure
AfterBuild(success, it, max) ==
    IF success THEN "returned"
    ELSE IF RepairAllowed(it, max) THEN "request" ELSE "while"

\* a round-trip without the try
ExceptPropagates == "raised"

\* where the except clause of the round-trip leads: continue
ExceptTarget == "while"

\* a return in place of the continue
EmptyPatchReturns == "returned"

\* where an empty PatchSet leads: continue
EmptyPatchTarget == "while"

\* a count that forgets the last iteration
FailureResultShort(out, it) == <<FALSE, out, it - 1>>

\* the tuple returned after the loop
FailureResult(out, it) == <<FALSE, out, it>>

\* while iteration < max_iterations: iteration += 1
EnterIteration ==
    /\ pc = "while"
    /\ LoopGuard(iteration, max_iterations)
    /\ iteration' = iteration + 1
    /\ pc' = "build"
    /\ UNCHANGED <<max_iterations, output, modifications, todo, result, files, log>>
    /\ UNCHANGED textVars

\* run_cargo_build, then the return on success or the test for a repair
RunCargoBuild ==
    /\ pc = "build"
    /\ \E success \in BOOLEAN :
         LET n == Cardinality({i \in DOMAIN log : log[i].kind = "build"}) + 1
         IN  /\ output' = Transcript(n)
             /\ log' = Append(log, [kind |-> "build", success |-> success,
                                    iteration |-> iteration, tree |-> files,
                                    transcript |-> Transcript(n)])
             /\ pc' = AfterBuild(success, iteration, max_iterations)
             /\ result' = IF pc' = "returned"
                          THEN <<TRUE, Transcript(n), iteration>>
                          ELSE result
    /\ UNCHANGED <<max_iterations, iteration, modifications, todo, files>>
    /\ UNCHANGED textVars

\* build_auto_fix_prompt, then the try block up to the for loop: the oracle
\* call, the reply's text, extract_file_modifications, the continue on an
\* empty PatchSet
RlmCompletion ==
    /\ pc = "request"
    /\ \E o \in OracleOutcomes :
         LET fix_prompt == build_auto_fix_prompt(files, output, iteration,
                                                 max_iterations)
             raised == o.kind # "text"
             patch == IF raised THEN <<>> ELSE extract_file_modifications(o.text)
         IN  /\ log' = Append(log, [kind |-> "oracle", outcome |-> o.kind,
                                    iteration |-> iteration, patch |-> patch,
                                    prompt |-> fix_prompt])
             /\ modifications' = IF raised THEN modifications ELSE patch
             /\ pc' = IF raised THEN ExceptTarget
                      ELSE IF patch = <<>> THEN EmptyPatchTarget
                      ELSE "apply"
             /\ todo' = IF ~raised /\ patch # <<>> THEN 1 ELSE todo
    /\ UNCHANGED <<max_iterations, iteration, output, result, files>>
    /\ UNCHANGED textVars

\* a for loop that a failed write breaks
GoesOnWhileOk(ok, n, len) == ok /\ n < len

\* does the for loop go on after this write
GoesOn(ok, n, len) == n < len

\* one round of the for loop: one write_file_content call
WriteFileContent ==
    /\ pc = "apply"
    /\ LET e == modifications[todo]
       IN  \E w \in write_file_content(files, e.path, e.content) :
             /\ files' = w.tree
             /\ log' = Append(log, [kind |-> "write", iteration |-> iteration,
                                    path |-> e.path,
                                    content |-> e.content, ok |-> w.ok,
                                    prior |-> files[TargetOf(e.path)],
                                    after |-> w.tree[TargetOf(e.path)]])
             /\ IF GoesOn(w.ok, todo, Len(modifications))
                THEN /\ todo' = todo + 1
                     /\ pc' = pc
                ELSE /\ todo' = 0
                     /\ pc' = "while"
    /\ UNCHANGED <<max_iterations, iteration, output, modifications, result>>
    /\ UNCHANGED textVars

\* the loop condition is false: return False, output, iteration; reading
\* output raises UnboundLocalError when no build has assigned it
ExitLoop ==
    /\ pc = "while"
    /\ ~LoopGuard(iteration, max_iterations)
    /\ IF output = Unbound
       THEN /\ pc' = "raised"
            /\ result' = result
       ELSE /\ pc' = "returned"
            /\ result' = FailureResult(output, iteration)
    /\ UNCHANGED <<max_iterations, iteration, output, modifications, todo, files, log>>
    /\ UNCHANGED textVars

Next ==
    \/ EnterIteration
    \/ RunCargoBuild
    \/ RlmCompletion
    \/ WriteFileContent
    \/ ExitLoop

Spec == Init /\ [][Next]_vars

\* the interpreter keeps running the function until it returns or raises
FairSpec == Spec /\ WF_vars(Next)

\* ------------------------------------------------------------------------
\* Reading the log
\* ------------------------------------------------------------------------

Terminal == pc \in {"returned", "raised"}

IsBuild(e) == e.kind = "build"

IsOracle(e) == e.kind = "oracle"

IsWrite(e) == e.kind = "write"

Builds == SelectSeq(log, IsBuild)

OracleCalls == SelectSeq(log, IsOracle)

Writes == SelectSeq(log, IsWrite)

NoBuildSucceeded == \A i \in DOMAIN Builds : ~Builds[i].success

\* ------------------------------------------------------------------------
\* C1  The loop always ends, after at most max_iterations builds: it is left
\*     at the first successful build or after the max_iterations-th failed
\*     build, and nowhere else.
\* ------------------------------------------------------------------------

C1_Exits ==
    /\ Len(Builds) <= max_iterations
    /\ \A i \in DOMAIN Builds : Builds[i].success => (i = Len(Builds) /\ Terminal)
    /\ Terminal =>
         \/ /\ Builds # <<>>
            /\ Builds[Len(Builds)].success
         \/ /\ NoBuildSucceeded
            /\ Len(Builds) = max_iterations

\* C1: every run ends, and at every moment the exits are the two above
C1_Terminates == <>Terminal /\ []C1_Exits

C1_Witness ==
    /\ pc = "returned"
    /\ NoBuildSucceeded
    /\ max_iterations >= 2
    /\ Len(Builds) = max_iterations
    /\ \E i \in DOMAIN log : IsOracle(log[i]) /\ log[i].outcome = "raises"

\* ------------------------------------------------------------------------
\* C2  Builds 1 and 2 fail, each oracle reply yields a one-entry PatchSet
\*     that is written: the third build starts on a file that holds the
\*     content extracted in iteration 2, and when it succeeds the function
\*     returns (True, its transcript, 3).
\* ------------------------------------------------------------------------

\* the writes of one iteration
WritesOf(it) == SelectSeq(log, LAMBDA e : IsWrite(e) /\ e.iteration = it)

C2_Scenario ==
    /\ Len(Builds) >= 3
    /\ ~Builds[1].success /\ ~Builds[2].success
    /\ Len(OracleCalls) >= 2
    /\ \A i \in 1..2 :
         /\ OracleCalls[i].outcome = "text"
         /\ Len(OracleCalls[i].patch) = 1
         /\ \A n \in DOMAIN WritesOf(i) : WritesOf(i)[n].ok

\* C2: in the scenario, build 3 sees the iteration-2 content and its success
\* is returned as (True, transcript, 3)
C2_ThirdBuildSeesSecondPatch ==
    C2_Scenario =>
        LET e == OracleCalls[2].patch[1]
        IN  /\ Builds[3].tree[TargetOf(e.path)] = File(e.content)
            /\ Builds[3].success =>
                 /\ pc = "returned"
                 /\ result = <<TRUE, Builds[3].transcript, 3>>
                 /\ files = Builds[3].tree

C2_Witness ==
    /\ C2_Scenario
    /\ Builds[3].success
    /\ OracleCalls[1].patch[1].path = OracleCalls[2].patch[1].path
    /\ OracleCalls[1].patch[1].content # OracleCalls[2].patch[1].content
    /\ InitialTree[TargetOf(OracleCalls[2].patch[1].path)].text
         # OracleCalls[2].patch[1].content

\* ------------------------------------------------------------------------
\* C3  Every build fails and every oracle reply extracts to the empty
\*     PatchSet: the run makes exactly max_iterations builds, writes no file
\*     and returns (False, last transcript, max_iterations).
\* ------------------------------------------------------------------------

C3_Scenario ==
    /\ Terminal
    /\ Builds # <<>>
    /\ NoBuildSucceeded
    /\ \A i \in DOMAIN OracleCalls :
         OracleCalls[i].outcome = "text" /\ OracleCalls[i].patch = <<>>

\* C3: in the scenario, max_iterations builds, no write, (False, _, max_iterations)
C3_UnparsableExhausts ==
    C3_Scenario =>
        /\ Len(Builds) = max_iterations
        /\ Writes = <<>>
        /\ files = InitialTree
        /\ pc = "returned"
        /\ result = <<FALSE, Builds[max_iterations].transcript, max_iterations>>

C3_Witness ==
    /\ C3_Scenario
    /\ max_iterations = MaxBudget
    /\ Len(OracleCalls) = MaxBudget - 1

\* ------------------------------------------------------------------------
\* C4  The first build succeeds: the function returns (True, that build's
\*     transcript, 1), the oracle was not called and no file was written.
\* ------------------------------------------------------------------------

C4_FirstBuildSucceeds ==
    (Builds # <<>> /\ Builds[1].success) =>
        /\ pc = "returned"
        /\ result = <<TRUE, Builds[1].transcript, 1>>
        /\ Len(log) = 1
        /\ files = InitialTree

C4_Witness ==
    /\ Builds # <<>>
    /\ Builds[1].success
    /\ max_iterations >= 2

\* ------------------------------------------------------------------------
\* C5  Whatever max_iterations is, a run in which no build succeeds returns
\*     (False, transcript of the last build, iterations used) and raises
\*     nothing.
\* ------------------------------------------------------------------------

C5_ExhaustionReturns ==
    (Terminal /\ NoBuildSucceeded) =>
        /\ pc = "returned"
        /\ result = <<FALSE, output, iteration>>

\* ------------------------------------------------------------------------
\* C6  An exception of the repair round-trip is swallowed: nothing is
\*     returned or raised, the iteration is spent and the next build runs,
\*     on the tree of the build before, as after an empty PatchSet.
\* ------------------------------------------------------------------------

\* after log[p] the loop goes straight to the build of the next iteration,
\* on the tree of the build of this iteration
StraightToNextBuild(p) ==
    /\ log[p].iteration < max_iterations
    /\ IF p = Len(log)
       THEN /\ result = <<>>
            /\ files = log[p - 1].tree
            /\ \/ pc = "while" /\ iteration = log[p].iteration
               \/ pc = "build" /\ iteration = log[p].iteration + 1
       ELSE /\ IsBuild(log[p + 1])
            /\ log[p + 1].iteration = log[p].iteration + 1
            /\ log[p + 1].tree = log[p - 1].tree

\* C6: every round-trip that raised is followed by the next build, nothing else
C6_ExceptionIsSwallowed ==
    \A p \in DOMAIN log :
        (IsOracle(log[p]) /\ log[p].outcome # "text") => StraightToNextBuild(p)

C6_Witness ==
    /\ Terminal
    /\ \E p \in DOMAIN log : IsOracle(log[p]) /\ log[p].outcome = "raises"
    /\ \E p \in DOMAIN log : IsOracle(log[p]) /\ log[p].outcome = "not_text"

\* ------------------------------------------------------------------------
\* C7  Iteration i makes build i and then at most one oracle round-trip; the
\*     oracle is asked only after a failed build of an iteration that is not
\*     the last, so at most max_iterations - 1 times.
\* ------------------------------------------------------------------------

BuildsAndCalls == SelectSeq(log, LAMBDA e : IsBuild(e) \/ IsOracle(e))

\* C7: one build per iteration, then at most one call, never after the last build
C7_OneBuildThenOneCall ==
    /\ \A i \in DOMAIN Builds : Builds[i].iteration = i
    /\ \A i, j \in DOMAIN OracleCalls :
         OracleCalls[i].iteration = OracleCalls[j].iteration => i = j
    /\ \A p \in DOMAIN BuildsAndCalls :
         IsOracle(BuildsAndCalls[p]) =>
            /\ p > 1
            /\ IsBuild(BuildsAndCalls[p - 1])
            /\ ~BuildsAndCalls[p - 1].success
            /\ BuildsAndCalls[p - 1].iteration = BuildsAndCalls[p].iteration
            /\ BuildsAndCalls[p].iteration < max_iterations
    /\ OracleCalls # <<>> => Len(OracleCalls) <= max_iterations - 1
    /\ pc = "request" => (log # <<>> /\ IsBuild(log[Len(log)]))

C7_Witness ==
    /\ Terminal
    /\ max_iterations = MaxBudget
    /\ Len(Builds) = MaxBudget
    /\ Len(OracleCalls) = MaxBudget - 1

\* ------------------------------------------------------------------------
\* C8  An empty PatchSet writes nothing and reports nothing: the iteration
\*     is spent and the next build runs on the unmodified project.
\* ------------------------------------------------------------------------

C8_EmptyPatchRebuilds ==
    \A p \in DOMAIN log :
        (IsOracle(log[p]) /\ log[p].outcome = "text" /\ log[p].patch = <<>>) =>
            /\ StraightToNextBuild(p)
            /\ WritesOf(log[p].iteration) = <<>>

C8_Witness ==
    \E p \in DOMAIN log :
        /\ IsOracle(log[p]) /\ log[p].outcome = "text" /\ log[p].patch = <<>>
        /\ p < Len(log)
        /\ \E q \in 1..(p - 1) : IsWrite(log[q]) /\ log[q].ok

\* ------------------------------------------------------------------------
\* C9  A non-empty PatchSet has every entry handed to write_file_content, in
\*     order, before the next build, whether or not the writes succeed; the
\*     loop then goes on to that build.
\* ------------------------------------------------------------------------

C9_EveryEntryIsWritten ==
    \A p \in DOMAIN log :
        (IsOracle(log[p]) /\ log[p].patch # <<>>) =>
            LET patch == log[p].patch
                last == p + Len(patch)
            IN  /\ \A n \in DOMAIN patch :
                     IF p + n <= Len(log)
                     THEN /\ IsWrite(log[p + n])
                          /\ log[p + n].path = patch[n].path
                          /\ log[p + n].content = patch[n].content
                     ELSE pc = "apply" /\ todo <= n
                /\ last < Len(log) =>
                     /\ IsBuild(log[last + 1])
                     /\ log[last + 1].iteration = log[p].iteration + 1
                /\ last = Len(log) =>
                     /\ result = <<>>
                     /\ \/ pc = "while" /\ iteration < max_iterations
                        \/ pc = "build"

C9_Witness ==
    \E p \in DOMAIN log :
        /\ IsWrite(log[p]) /\ ~log[p].ok
        /\ p + 2 <= Len(log)
        /\ IsWrite(log[p + 1]) /\ log[p + 1].ok
        /\ IsBuild(log[p + 2])

\* ------------------------------------------------------------------------
\* C10 Every write_file_content call either replaces the whole content and
\*     returns True, or returns False and leaves the file as it was.
\* ------------------------------------------------------------------------

C10_WriteAllOrNothing ==
    \A p \in DOMAIN log :
        IsWrite(log[p]) =>
            \/ log[p].ok /\ log[p].after = File(log[p].content)
            \/ ~log[p].ok /\ log[p].after = log[p].prior

\* ------------------------------------------------------------------------
\* extract_file_modifications on its own: a response text is put together
\* from parts, the function is applied to it, and the PatchSet it returned
\* is written back as FILE: entries and extracted again.
\* ------------------------------------------------------------------------

\* largest number of parts of a response
MaxParts == 3

\* one FILE: line and one fenced block right after it
FileEntry(marker, fence, body) == <<marker, fence>> \o body \o <<"[fence]">>

ResponseParts ==
    {<<l>> : l \in {"FILE: src/main.rs", "FILE: Cargo.toml",
                    "Fix for src/main.rs:", "Update Cargo.toml:",
                    "I could not find the error.", "",
                    "[fence]", "[fence]rust"}}
    \cup {<<"[fence]rust", "fn main() {}", "[fence]">>,
          <<"[fence]rust", "use std::io;", "fn main() { run(); }", "[fence]">>,
          <<"[fence]toml", "[package]", "[fence]">>,
          <<"[fence]toml", "[dependencies]", "rand = \"0.8\"", "[fence]">>,
          <<"[fence]", "fn main() { old(); }", "[fence]">>,
          <<"[fence]python", "fn main() {}", "[fence]">>}
    \cup {FileEntry("FILE: src/main.rs", "[fence]rust", <<"fn main() {}">>),
          FileEntry("FILE: Cargo.toml", "[fence]toml", <<"[package]">>),
          FileEntry("FILE: app/src/main.rs", "[fence]rust", <<"fn main() { run(); }">>),
          FileEntry("FILE: src/util.rs", "[fence]", <<"Update Cargo.toml:">>),
          FileEntry("file:   src/main.rs  ", "[fence]rust", <<"use std::io;">>)}

\* the FILE: line that declares a path
MarkerLine(path) ==
    CASE path = "src/main.rs" -> "FILE: src/main.rs"
      [] path = "Cargo.toml" -> "FILE: Cargo.toml"
      [] path = "src/lib.rs" -> "FILE: src/lib.rs"
      [] path = "src/util.rs" -> "FILE: src/util.rs"
      [] path = "app/src/main.rs" -> "FILE: app/src/main.rs"
      [] path = "/tmp/evil.rs" -> "FILE: /tmp/evil.rs"
      [] path = "../evil.rs" -> "FILE: ../evil.rs"

\* a PatchSet written as text: per entry, in order, one FILE: line and one
\* fenced block holding the content (tagged toml for the manifest)
RECURSIVE Serialize(_)
Serialize(d) ==
    IF d = <<>> THEN <<>>
    ELSE FileEntry(MarkerLine(d[1].path),
                   IF d[1].path = "Cargo.toml" THEN "[fence]toml" ELSE "[fence]rust",
                   IF d[1].content = <<>> THEN <<"">> ELSE d[1].content)
         \o Serialize(Tail(d))

\* two dicts compare equal: same keys, same values, whatever the order
SameDict(a, b) ==
    /\ DictKeys(a) = DictKeys(b)
    /\ \A k \in DictKeys(a) : DictGet(a, k) = DictGet(b, k)

\* auto_fix_rust_project is not running
LoopIdle ==
    /\ max_iterations = 0
    /\ iteration = 0
    /\ output = Unbound
    /\ modifications = <<>>
    /\ todo = 0
    /\ pc = "idle"
    /\ result = <<>>
    /\ files = InitialTree
    /\ log = <<>>

PatchInit ==
    /\ LoopIdle
    /\ stage = "compose"
    /\ response = <<>>
    /\ parts = 0
    /\ steps = NoSteps
    /\ patchset = <<>>
    /\ exception = FALSE
    /\ roundtrip = <<>>
    /\ artifact = [found |-> FALSE, code |-> <<>>]
    /\ dependencies = <<>>
    /\ history = <<>>

\* one more part of the response
ComposeResponse ==
    /\ stage = "compose"
    /\ parts < MaxParts
    /\ \E part \in ResponseParts : response' = response \o part
    /\ parts' = parts + 1
    /\ UNCHANGED <<stage, exception, patchVars, artifact, mergeVars>>
    /\ UNCHANGED loopVars

\* modifications = extract_file_modifications(response)
ExtractFileModifications ==
    /\ stage = "compose"
    /\ stage' = "extracted"
    /\ IF ExtractionRaises(response)
       THEN exception' = TRUE /\ UNCHANGED <<steps, patchset>>
       ELSE /\ exception' = FALSE
            /\ steps' = ExtractionSteps(response)
            /\ patchset' = extract_file_modifications(response)
    /\ UNCHANGED <<response, parts, roundtrip, artifact, mergeVars>>
    /\ UNCHANGED loopVars

\* extract_file_modifications(serialise(patchset))
ExtractSerialized ==
    /\ stage = "extracted"
    /\ ~exception
    /\ stage' = "reextracted"
    /\ roundtrip' = extract_file_modifications(Serialize(patchset))
    /\ UNCHANGED <<response, parts, steps, patchset, exception, artifact, mergeVars>>
    /\ UNCHANGED loopVars

PatchNext ==
    \/ ComposeResponse
    \/ ExtractFileModifications
    \/ ExtractSerialized

PatchSpec == PatchInit /\ [][PatchNext]_vars

Extracted == stage \in {"extracted", "reextracted"} /\ ~exception

\* ------------------------------------------------------------------------
\* C11 When the FILE: strategy produced an entry, the strategy on the
\*     canonical names and the largest-block strategy add no entry and
\*     change no entry.
\* ------------------------------------------------------------------------

C11_LaterStrategiesKeepOff ==
    Extracted /\ steps.p1 # <<>> => steps.p2 = steps.p1 /\ steps.p3 = steps.p1

\* ------------------------------------------------------------------------
\* C12 A Cargo.toml entry made by the FILE: strategy is the Cargo.toml
\*     entry of the result.
\* ------------------------------------------------------------------------

C12_ManifestEntryKept ==
    Extracted /\ "Cargo.toml" \in DictKeys(steps.p1) =>
        /\ "Cargo.toml" \in DictKeys(patchset)
        /\ DictGet(patchset, "Cargo.toml") = DictGet(steps.p1, "Cargo.toml")

\* ------------------------------------------------------------------------
\* C13 On a response made of FILE: entries, writing the returned PatchSet
\*     back as FILE: entries and extracting again returns the same PatchSet.
\* ------------------------------------------------------------------------

RECURSIVE DeclaredFrom(_, _)
\* the entries a response declares from line i on, read as a sequence of
\* FILE: lines each immediately followed by a rust, toml or untagged block
\* closed by a bare fence; [ok |-> FALSE] when the lines have another shape
DeclaredFrom(lines, i) ==
    IF i > Len(lines) THEN [ok |-> TRUE, entries |-> <<>>]
    ELSE IF ~(HasMarker(lines[i]) /\ i + 1 <= Len(lines) /\ OpensBlock(lines[i + 1]))
         THEN [ok |-> FALSE, entries |-> <<>>]
         ELSE LET k == NextFence(lines, i + 2)
              IN  IF k = 0 \/ lines[k] # "[fence]"
                  THEN [ok |-> FALSE, entries |-> <<>>]
                  ELSE LET rest == DeclaredFrom(lines, k + 1)
                       IN  [ok |-> rest.ok,
                            entries |-> <<[path |-> MarkerPath(lines[i]),
                                           content |-> Strip(SubSeq(lines, i + 2, k - 1))]>>
                                        \o rest.entries]

WellFormed(lines) == lines # <<>> /\ DeclaredFrom(lines, 1).ok

C13_ReextractionIsIdentity ==
    stage = "reextracted" /\ WellFormed(response) => SameDict(roundtrip, patchset)

\* ------------------------------------------------------------------------
\* C14 On a response made of FILE: entries the returned PatchSet has the
\*     declared paths as keys and nothing else, and under each path the
\*     content of the block declared for it (of the last one, when a path is
\*     declared more than once).
\* ------------------------------------------------------------------------

C14_ExactlyTheDeclaredEntries ==
    Extracted /\ WellFormed(response) =>
        LET declared == DeclaredFrom(response, 1).entries
        IN  /\ DictKeys(patchset) = {declared[n].path : n \in DOMAIN declared}
            /\ \A n \in DOMAIN declared :
                   (\A m \in DOMAIN declared : m > n => declared[m].path # declared[n].path)
                       => DictGet(patchset, declared[n].path) = declared[n].content

\* ------------------------------------------------------------------------
\* C15 extract_file_modifications raises on no response, and returns the
\*     empty PatchSet for a response without a fenced block.
\* ------------------------------------------------------------------------

NoFence(lines) == \A i \in DOMAIN lines : ~IsFence(lines[i])

C15_NeverRaises ==
    stage # "compose" =>
        /\ ~exception
        /\ NoFence(response) => patchset = <<>>

C15_Witness ==
    /\ stage = "extracted"
    /\ ~exception
    /\ NoFence(response)
    /\ \E i \in DOMAIN response : HasMarker(response[i])
    /\ \E i \in DOMAIN response : Mentions(response[i]) # {} /\ ~HasMarker(response[i])
    /\ patchset = <<>>

\* ------------------------------------------------------------------------
\* extract_rust_code (rust_utils.py). The lines of its responses: program
\* lines, prose, the FINAL( ... ) wrapper. What each regular expression and
\* substring test of the function finds in a line is tabulated here.
\* ------------------------------------------------------------------------

\* a pattern of PLACEHOLDER_PATTERNS or a word of the upper-case list occurs in the line
HasPlaceholderMark(l) ==
    l \in {"    println!(\"Hello, world!\");",
     "println!(\"Hello, world!\");",
     "// Placeholder for the rest of the conversion, which goes through the original program line by line."}

\* 'println!' in the line
HasPrintln(l) ==
    l \in {"    println!(\"Hello, world!\");",
     "println!(\"Hello, world!\");",
     "println!(\"The total of the even values and the number of values that were read go to the caller.\");"}

\* one of 'fn ', 'let ', 'use ', 'impl ', 'struct ', 'enum ', 'mod ' occurs in the line
HasKeyword(l) ==
    l \in {"fn main() {}",
     "fn main() { run(); }",
     "fn main() { old(); }",
     "use std::io;",
     "fn main() {",
     "let total: u64 = values.iter().map(|v| u64::from(*v)).filter(|v| v % 2 == 0).sum::<u64>() + offset;",
     "You can use the standard library as it is; the entry point of the program stays fn main and nothing else has to change there.",
     "use the standard library as it is; the entry point of the program stays fn main and nothing else has to change there.",
     "fn add(a: i32, b: i32) -> i32 { a + b }",
     "fn sub(a: i32, b: i32) -> i32 { a - b - 0 }"}

\* fn, whitespace, main occurs in the line
HasFnMain(l) ==
    l \in {"fn main() {}",
     "fn main() { run(); }",
     "fn main() { old(); }",
     "fn main() {",
     "You can use the standard library as it is; the entry point of the program stays fn main and nothing else has to change there.",
     "use the standard library as it is; the entry point of the program stays fn main and nothing else has to change there."}

\* the line holds the signature of main up to its opening brace
IsMainOpen(l) ==
    l \in {"fn main() {}",
     "fn main() { run(); }",
     "fn main() { old(); }",
     "fn main() {"}

\* the line is an import statement, use of a path closed by ;
IsImport(l) ==
    l \in {"use std::io;"}

\* the line ends with a println!( ... ); statement
IsPrintlnStatement(l) ==
    l \in {"    println!(\"Hello, world!\");",
     "println!(\"Hello, world!\");",
     "println!(\"The total of the even values and the number of values that were read go to the caller.\");"}

\* use followed by whitespace occurs in the line (after the use, when fn main occurs too)
HasUse(l) ==
    l \in {"use std::io;",
     "You can use the standard library as it is; the entry point of the program stays fn main and nothing else has to change there.",
     "use the standard library as it is; the entry point of the program stays fn main and nothing else has to change there."}

\* use, whitespace and one of pancurses, ncurses, std, rand occur in the line
IsStdImport(l) == l = "use std::io;"

\* the line is a closing brace on its own
IsCloser(l) == l = "}"

\* the line starts with one of the item words of flexible_pattern (const,
\* static, struct, enum, type, fn, impl, trait, mod, pub) and whitespace
IsItemStart(l) == l \in {"fn main() {", "fn add(a: i32, b: i32) -> i32 { a + b }", "fn sub(a: i32, b: i32) -> i32 { a - b - 0 }"}

\* the item that starts on the line is closed on the same line
IsWholeItem(l) == l \in {"fn add(a: i32, b: i32) -> i32 { a + b }", "fn sub(a: i32, b: i32) -> i32 { a - b - 0 }"}

\* a closing brace occurs in the line (as its last character)
HasCloseBrace(l) == l \in {"}", "fn add(a: i32, b: i32) -> i32 { a + b }", "fn sub(a: i32, b: i32) -> i32 { a - b - 0 }"}

\* the line from its first use on
UseSuffix(l) ==
    IF l = "You can use the standard library as it is; the entry point of the program stays fn main and nothing else has to change there."
    THEN "use the standard library as it is; the entry point of the program stays fn main and nothing else has to change there."
    ELSE l

\* line.strip() of a line that is not blank
Trim(l) == LTrim(RTrim(l))

\* len(text.strip()) of a text given as lines
StripLen(ls) ==
    IF Strip(ls) = <<>> THEN 0 ELSE TextLen(Strip(ls)) - 1

MIN_CODE_LENGTH == 100

\* line breaks from which on a short print-only text is no placeholder
MaxLineBreaks == 10

\* len(...) > MIN_CODE_LENGTH
LongEnough(n) == n > MIN_CODE_LENGTH

\* is_placeholder_code(code), code given as code.split('\n')
is_placeholder_code(code) ==
    \/ \E i \in DOMAIN code : HasPlaceholderMark(code[i])
    \/ /\ StripLen(code) < MIN_CODE_LENGTH
       /\ \E i \in DOMAIN code : HasPrintln(code[i])
       /\ Len(code) - 1 < MaxLineBreaks

\* the outcome of extract_rust_code: None, or the code found
NotFound == [found |-> FALSE, code |-> <<>>]

Found(code) == [found |-> TRUE, code |-> code]

\* the test every candidate outside a fenced block has to pass
Accept(code) ==
    IF LongEnough(StripLen(code)) /\ ~is_placeholder_code(code)
    THEN Found(code)
    ELSE NotFound

\* a captured block, which ends with the line break before the closing fence,
\* as block.split('\n')
Split(block) == block \o <<"">>

\* the blocks of the rust-tagged search that are kept
RealCode(matches) ==
    SelectSeq(matches, LAMBDA m : LongEnough(StripLen(m)) /\ ~is_placeholder_code(Split(m)))

\* the blocks of the untagged search that are kept, stripped
RustBlocks(matches) ==
    LET kept == SelectSeq(matches, LAMBDA m :
                    /\ \E i \in DOMAIN m : HasKeyword(m[i])
                    /\ LongEnough(StripLen(m))
                    /\ ~is_placeholder_code(Split(m)))
    IN  [n \in DOMAIN kept |-> Strip(kept[n])]

\* after the closing brace of line c comes an empty line or, past
\* whitespace, the end of the text
EndsParagraph(lines, c) ==
    \/ \A n \in (c + 1)..Len(lines) : IsBlank(lines[n])
    \/ \E e \in (c + 1)..Len(lines) :
          lines[e] = "" /\ \A n \in (c + 1)..e : IsBlank(lines[n])

\* the first of a set of line indexes, 0 when there is none
FirstLine(S) == IF S = {} THEN 0 ELSE Min(S)

\* use_to_end_pattern: from the first import statement over the signature
\* of main to the first closing brace that ends a paragraph
UseToEnd(lines) ==
    LET i == FirstLine({n \in 1..Len(lines) : IsImport(lines[n])})
        m == IF i = 0 THEN 0 ELSE FirstLine({n \in i..Len(lines) : IsMainOpen(lines[n])})
        C == IF m = 0 THEN {}
             ELSE {c \in (m + 1)..Len(lines) : IsCloser(lines[c]) /\ EndsParagraph(lines, c)}
    IN  IF C = {} THEN NotFound
        ELSE Accept(Strip(SubSeq(lines, i, Min(C))))

\* extract_from_text(text)
extract_from_text(lines) ==
    LET real_code == RealCode(FindBlocks(lines, "rust", 1))
        rust_blocks == RustBlocks(FindBlocks(lines, "", 1))
    IN  IF real_code # <<>> THEN Found(Strip(Longest(real_code)))
        ELSE IF rust_blocks # <<>> THEN Found(Longest(rust_blocks))
        ELSE UseToEnd(lines)

\* step 1 of clean_rlm_formatted_response: the inside of FINAL( ... ) when
\* the text ends with the closing parenthesis
FinalWrapper(lines) ==
    LET f == FirstLine({n \in DOMAIN lines : lines[n] = "FINAL("})
        R == IF f = 0 THEN {}
             ELSE {r \in (f + 1)..Len(lines) :
                      lines[r] = ")" /\ \A n \in (r + 1)..Len(lines) : IsBlank(lines[n])}
    IN  IF R = {} THEN lines
        ELSE SubSeq(lines, f + 1, Min(R) - 1)

RECURSIVE CleanLines(_)
\* step 3 of clean_rlm_formatted_response: every line stripped, the blank
\* lines dropped
CleanLines(lines) ==
    IF lines = <<>> THEN <<>>
    ELSE IF IsBlank(Head(lines)) THEN CleanLines(Tail(lines))
         ELSE <<Trim(Head(lines))>> \o CleanLines(Tail(lines))

\* clean_rlm_formatted_response(text); step 2 finds no panel, the texts
\* hold no box-drawing character
clean_rlm_formatted_response(lines) == CleanLines(FinalWrapper(lines))

\* full_code_pattern: from the first import of a known crate over main( to
\* the first println statement that a closing brace follows
FullCode(lines) ==
    LET i == FirstLine({n \in 1..Len(lines) : IsStdImport(lines[n])})
        m == IF i = 0 THEN 0 ELSE FirstLine({n \in i..Len(lines) : IsMainOpen(lines[n])})
        N == IF m = 0 THEN {}
             ELSE {n \in (m + 1)..(Len(lines) - 1) :
                      IsPrintlnStatement(lines[n]) /\ IsCloser(lines[n + 1])}
    IN  IF N = {} THEN NotFound
        ELSE Accept(Strip(SubSeq(lines, i, Min(N) + 1)))

\* code_start_pattern: from the first use that a fn main follows to the end
\* of the text (the cleaned text has no empty line to stop at)
CodeStart(lines) ==
    LET u == FirstLine({n \in 1..Len(lines) : HasUse(lines[n])})
        v == IF u = 0 THEN 0 ELSE FirstLine({n \in u..Len(lines) : HasFnMain(lines[n])})
    IN  IF v = 0 THEN NotFound
        ELSE LET code == Strip(<<UseSuffix(lines[u])>> \o SubSeq(lines, u + 1, Len(lines)))
             IN  IF \E n \in DOMAIN code : HasFnMain(code[n])
                 THEN Accept(code) ELSE NotFound

\* the line on which the item that starts on line e is closed, 0 when none
ItemEnd(lines, e) ==
    IF IsWholeItem(lines[e]) THEN e ELSE FirstLine({n \in (e + 1)..Len(lines) : HasCloseBrace(lines[n])})

RECURSIVE FlexFrom(_, _)
\* flexible_pattern from line pos on, the imports behind: as many items as
\* can be, then the signature of main and the first closing brace at the
\* start of a line; the index of that line, 0 when there is no match
FlexFrom(lines, pos) ==
    IF pos > Len(lines) THEN 0
    ELSE LET e == IF IsItemStart(lines[pos]) THEN ItemEnd(lines, pos) ELSE 0
             more == IF e = 0 THEN 0 ELSE FlexFrom(lines, e + 1)
         IN  IF more # 0 THEN more
             ELSE IF IsMainOpen(lines[pos]) THEN FirstLine({n \in (pos + 1)..Len(lines) : IsCloser(lines[n])})
             ELSE 0

\* index of the first line at or after i that is no import statement
ImportsEnd(lines, i) ==
    LET S == {n \in i..Len(lines) : ~IsImport(lines[n])}
    IN  IF S = {} THEN Len(lines) + 1 ELSE Min(S)

\* flexible_pattern: import statements, items, main up to its closing brace
Flexible(lines) ==
    LET S == {i \in DOMAIN lines :
                 IsImport(lines[i]) /\ FlexFrom(lines, ImportsEnd(lines, i)) # 0}
    IN  IF S = {} THEN NotFound
        ELSE LET i == Min(S)
             IN  Accept(Strip(SubSeq(lines, i, FlexFrom(lines, ImportsEnd(lines, i)))))

\* extract_rust_code(response)
extract_rust_code(text) ==
    LET first == extract_from_text(text)
        cleaned_response == clean_rlm_formatted_response(text)
        second == extract_from_text(cleaned_response)
        third == FullCode(cleaned_response)
        fourth == CodeStart(cleaned_response)
    IN  IF first.found THEN first
        ELSE IF second.found THEN second
        ELSE IF third.found THEN third
        ELSE IF fourth.found THEN fourth
        ELSE Flexible(cleaned_response)

\* ------------------------------------------------------------------------
\* extract_rust_code on its own: a response is put together from lines and
\* fenced blocks and the function is applied to it.
\* ------------------------------------------------------------------------

\* largest number of parts of a response to extract_rust_code
MaxArtifactParts == 3

Block(fence, body) == <<fence>> \o body \o <<"[fence]">>

\* the programs inside the blocks: the greeting program, two short
\* functions, programs of more than 100 characters (one with a placeholder
\* comment), and two at the threshold, of 99 and of 101 characters
Greeting == <<"fn main() {", "    println!(\"Hello, world!\");", "}">>

ShortAdd == <<"fn add(a: i32, b: i32) -> i32 { a + b }">>

ShortSub == <<"fn sub(a: i32, b: i32) -> i32 { a - b - 0 }">>

Total == <<"use std::io;", "fn main() {",
           "let total: u64 = values.iter().map(|v| u64::from(*v)).filter(|v| v % 2 == 0).sum::<u64>() + offset;",
           "}">>

TotalPrinted == <<"use std::io;", "fn main() {",
                  "let total: u64 = values.iter().map(|v| u64::from(*v)).filter(|v| v % 2 == 0).sum::<u64>() + offset;",
                  "println!(\"The total of the even values and the number of values that were read go to the caller.\");",
                  "}">>

Unfinished == <<"fn main() {",
                "let total: u64 = values.iter().map(|v| u64::from(*v)).filter(|v| v % 2 == 0).sum::<u64>() + offset;",
                "// Placeholder for the rest of the conversion, which goes through the original program line by line.",
                "}">>

Below == <<"let total: u64 = values.iter().map(|v| u64::from(*v)).filter(|v| v % 2 == 0).sum::<u64>() + offset;">>

Above == Below \o <<"}">>

ArtifactParts ==
    {<<l>> : l \in {"You can use the standard library as it is; the entry point of the program stays fn main and nothing else has to change there.",
                    "Here is the program.", "", "use std::io;", "fn main() {", "}",
                    "let total: u64 = values.iter().map(|v| u64::from(*v)).filter(|v| v % 2 == 0).sum::<u64>() + offset;",
                    "println!(\"The total of the even values and the number of values that were read go to the caller.\");",
                    "FINAL(", ")"}}
    \cup {Block("[fence]rust", body) :
             body \in {Greeting, ShortAdd, ShortSub, Total, TotalPrinted, Unfinished, Below, Above}}
    \cup {Block("[fence]", body) : body \in {Greeting, ShortAdd, Total, TotalPrinted, Above}}
    \cup {Block("[fence]python", TotalPrinted)}

ArtifactInit ==
    /\ LoopIdle
    /\ stage = "compose"
    /\ response = <<>>
    /\ parts = 0
    /\ steps = NoSteps
    /\ patchset = <<>>
    /\ exception = FALSE
    /\ roundtrip = <<>>
    /\ artifact = NotFound
    /\ dependencies = <<>>
    /\ history = <<>>

\* one more part of the response
ComposeArtifactResponse ==
    /\ stage = "compose"
    /\ parts < MaxArtifactParts
    /\ \E part \in ArtifactParts : response' = response \o part
    /\ parts' = parts + 1
    /\ UNCHANGED <<stage, exception, patchVars, artifact, mergeVars>>
    /\ UNCHANGED loopVars

\* rust_code = extract_rust_code(response); nothing in the function raises
\* on a str: every index and every max() is behind a test of its list
ExtractRustCode ==
    /\ stage = "compose"
    /\ stage' = "extracted"
    /\ artifact' = extract_rust_code(response)
    /\ UNCHANGED <<response, parts, exception, patchVars, mergeVars>>
    /\ UNCHANGED loopVars

ArtifactNext ==
    \/ ComposeArtifactResponse
    \/ ExtractRustCode

ArtifactSpec == ArtifactInit /\ [][ArtifactNext]_vars

RECURSIVE FencedBlocks(_, _)
\* the fenced blocks of a response as a reader pairs the fences, first with
\* second, third with fourth: the tag of the opening fence and the lines in
\* between
FencedBlocks(lines, pos) ==
    LET j == NextFence(lines, pos)
        k == IF j = 0 THEN 0 ELSE NextFence(lines, j + 1)
    IN  IF k = 0 THEN <<>>
        ELSE <<[tag |-> FenceTag(lines[j]), body |-> SubSeq(lines, j + 1, k - 1)]>>
             \o FencedBlocks(lines, k + 1)

\* the rust-tagged ones among them
RustTagged(lines) == SelectSeq(FencedBlocks(lines, 1), LAMBDA blk : blk.tag = "rust")

\* the longer of two blocks by the characters between the fences
LongerOf(x, y) == IF TextLen(x.body) > TextLen(y.body) THEN x ELSE y

\* ------------------------------------------------------------------------
\* C16, whatever the length of the blocks: when a response holds two rust-tagged fenced blocks of
\*     different lengths and is_placeholder_code holds of neither,
\*     extract_rust_code returns the longer one.
\* ------------------------------------------------------------------------

TwoAcceptedBlocks ==
    LET tagged == RustTagged(response)
    IN  /\ Len(tagged) = 2
        /\ TextLen(tagged[1].body) # TextLen(tagged[2].body)
        /\ \A n \in 1..2 :
              /\ StripLen(tagged[n].body) > MIN_CODE_LENGTH
              /\ ~is_placeholder_code(Split(tagged[n].body))

IsProse(l) ==
    l \in {"You can use the standard library as it is; the entry point of the program stays fn main and nothing else has to change there.",
           "Here is the program.", ""}

OnlyGreetingBlock ==
    LET blocks == FencedBlocks(response, 1)
    IN  /\ Len(blocks) = 1
        /\ blocks[1].body = Greeting
        /\ StripLen(Greeting) < MIN_CODE_LENGTH
        /\ Len(SelectSeq(response, IsFence)) = 2
        /\ Len(SelectSeq(response, IsProse)) = Len(response) - 2 - Len(Greeting)

C17_GreetingIsRejected ==
    stage = "extracted" /\ OnlyGreetingBlock => artifact = NotFound

\* ------------------------------------------------------------------------
\* C18 When a response holds no fence and no import statement followed by
\*     the signature of main, extract_rust_code returns None, and it raises
\*     on no response.
\* ------------------------------------------------------------------------

StructuralMatch ==
    \E i \in DOMAIN response : \E m \in DOMAIN response :
        i < m /\ IsImport(response[i]) /\ IsMainOpen(response[m])

C18_NothingToFind ==
    stage = "extracted" =>
        /\ ~exception
        /\ NoFence(response) /\ ~StructuralMatch => artifact = NotFound

\* ------------------------------------------------------------------------
\* update_cargo_dependencies (rust_utils.py). Cargo.toml is the sequence
\* content.split('\n'); what the substring tests of the function find in a
\* line is tabulated here.
\* ------------------------------------------------------------------------

\* '[dependencies]' occurs in the line
ContainsHeader(l) ==
    l \in {"[dependencies]", "  [dependencies]  ", "# see [dependencies] below"}

\* line.strip() == '[dependencies]'
IsHeader(l) ==
    l \in {"[dependencies]", "  [dependencies]  "}

\* the line opens a section of the manifest
IsSectionHeader(l) ==
    l \in {"[package]", "[dependencies]", "  [dependencies]  ", "[dependencies.rand]"}

\* the library names that occur in the line, as substrings
NamesIn(l) ==
    CASE l = "name = \"rand-demo\"" -> {"rand"}
      [] l = "[dependencies.rand]" -> {"rand"}
      [] l = "rand = \"0.7\"" -> {"rand"}
      [] l = "serde = \"1.0\"" -> {"serde"}
      [] l = "rand = \"0.8\"" -> {"rand"}
      [] l = "rand_core = \"0.6\"" -> {"rand", "rand_core"}
      [] OTHER -> {}

\* the version each library of the DependencySets comes with
DepValue(name) ==
    CASE name = "rand" -> "0.8"
      [] name = "serde" -> "1.0"
      [] name = "rand_core" -> "0.6"

\* f'{dep_name} = "{dep_value}"'
DepLine(name, value) ==
    CASE name = "rand" /\ value = "0.8" -> "rand = \"0.8\""
      [] name = "serde" /\ value = "1.0" -> "serde = \"1.0\""
      [] name = "rand_core" /\ value = "0.6" -> "rand_core = \"0.6\""

\* the line is an entry name = "version" of the library
IsEntryOf(l, name) ==
    CASE name = "rand" -> l \in {"rand = \"0.7\"", "rand = \"0.8\""}
      [] name = "serde" -> l \in {"serde = \"1.0\""}
      [] name = "rand_core" -> l \in {"rand_core = \"0.6\""}

\* the line opens the table of the library, [dependencies.name]
IsTableOf(l, name) == name = "rand" /\ l = "[dependencies.rand]"

\* the DependencySet as the dict it is, in insertion order
Dep(name) == [name |-> name, value |-> DepValue(name)]

DependencyNames == {"rand", "serde", "rand_core"}

DependencySets ==
    {<<>>} \cup {<<Dep(a)>> : a \in DependencyNames}
           \cup {<<Dep(p[1]), Dep(p[2])>> :
                    p \in {q \in DependencyNames \X DependencyNames : q[1] # q[2]}}

\* the test that never skips a dependency
NeverNamed(name, lines) == FALSE

\* any(dep_name in l for l in lines)
AlreadyNamed(name, lines) == \E i \in DOMAIN lines : name \in NamesIn(lines[i])

RECURSIVE NewEntries(_, _)
\* the lines appended for the dependencies that are not skipped
NewEntries(deps, lines) ==
    IF deps = <<>> THEN <<>>
    ELSE (IF AlreadyNamed(deps[1].name, lines) THEN <<>>
          ELSE <<DepLine(deps[1].name, deps[1].value)>>)
         \o NewEntries(Tail(deps), lines)

RECURSIVE AllEntries(_)
\* one line per dependency, none skipped
AllEntries(deps) ==
    IF deps = <<>> THEN <<>>
    ELSE <<DepLine(deps[1].name, deps[1].value)>> \o AllEntries(Tail(deps))

\* the branch taken when '[dependencies]' occurs in the content: the new
\* entries go in after the first line that is the header, the lines are
\* joined again (the flag in_dependencies changes nothing that is written)
InsertAfterHeader(lines, deps) ==
    LET h == FirstLine({i \in DOMAIN lines : IsHeader(lines[i])})
    IN  IF h = 0 THEN lines
        ELSE SubSeq(lines, 1, h) \o NewEntries(deps, lines)
             \o SubSeq(lines, h + 1, Len(lines))

\* the other branch: a line break, the header and one line per dependency
\* appended to the content; the text is content.split('\n')
AppendSection(lines, deps) ==
    lines \o <<"[dependencies]">> \o AllEntries(deps) \o <<"">>

\* update_cargo_dependencies(project_dir, dependencies), the file read and
\* written without an error of the file system; what it returns and the
\* Cargo.toml it leaves
update_cargo_dependencies(file, deps) ==
    IF deps = <<>> THEN [ok |-> TRUE, file |-> file]
    ELSE IF ~file.exists THEN [ok |-> FALSE, file |-> file]
    ELSE IF \E i \in DOMAIN file.text : ContainsHeader(file.text[i])
         THEN [ok |-> TRUE, file |-> File(InsertAfterHeader(file.text, deps))]
         ELSE [ok |-> TRUE, file |-> File(AppendSection(file.text, deps))]

\* ------------------------------------------------------------------------
\* update_cargo_dependencies on its own: a Cargo.toml is written line by
\* line, then the same DependencySet is merged into it time after time.
\* ------------------------------------------------------------------------

\* largest number of lines of the Cargo.toml before the first merge
MaxManifestLines == 3

\* largest number of merges
MaxMerges == 2

ManifestLines ==
    {"[package]", "name = \"rand-demo\"", "", "[dependencies]", "  [dependencies]  ",
     "# see [dependencies] below", "[dependencies.rand]", "version = \"0.7\"",
     "rand = \"0.7\"", "serde = \"1.0\""}

\* no Cargo.toml, or an empty one (whose text splits into one empty line)
MergeInit ==
    /\ LoopIdle
    /\ stage = "compose"
    /\ response = <<>>
    /\ parts = 0
    /\ steps = NoSteps
    /\ patchset = <<>>
    /\ exception = FALSE
    /\ roundtrip = <<>>
    /\ artifact = NotFound
    /\ dependencies \in DependencySets
    /\ history \in {<<NoFile>>, <<File(<<"">>)>>}

\* one more line, with its line break, at the end of Cargo.toml
WriteManifestLine ==
    /\ stage = "compose"
    /\ history[1].exists
    /\ parts < MaxManifestLines
    /\ \E l \in ManifestLines :
          history' = <<File(SubSeq(history[1].text, 1, Len(history[1].text) - 1)
                            \o <<l, "">>)>>
    /\ parts' = parts + 1
    /\ UNCHANGED <<stage, response, exception, patchVars, artifact, dependencies>>
    /\ UNCHANGED loopVars

\* update_cargo_dependencies(project_dir, dependencies)
UpdateCargoDependencies ==
    /\ stage \in {"compose", "merged"}
    /\ Len(history) <= MaxMerges
    /\ stage' = "merged"
    /\ history' = Append(history,
                         update_cargo_dependencies(history[Len(history)], dependencies).file)
    /\ UNCHANGED <<response, parts, exception, patchVars, artifact, dependencies>>
    /\ UNCHANGED loopVars

MergeNext ==
    \/ WriteManifestLine
    \/ UpdateCargoDependencies

MergeSpec == MergeInit /\ [][MergeNext]_vars

\* ------------------------------------------------------------------------
\* C19 Merging the same DependencySet a second time leaves the Cargo.toml
\*     that the first merge left.
\* ------------------------------------------------------------------------

C19_MergeIsIdempotent ==
    \A k \in DOMAIN history : k > 2 => history[k] = history[2]

\* the section was appended by the first merge, entries went in, and the
\* second merge has run
C19_Witness ==
    /\ Len(history) = 3
    /\ history[1].exists
    /\ \A i \in DOMAIN history[1].text : ~ContainsHeader(history[1].text[i])
    /\ Len(history[1].text) > 1
    /\ Len(dependencies) = 2
    /\ Len(history[2].text) = Len(history[1].text) + 4
    /\ history[3] = history[2]

\* ------------------------------------------------------------------------
\* C20 A library the Cargo.toml declares once is, after a merge of a
\*     DependencySet that holds it, still declared once and by the same
\*     line; the lines of before are all there in their order, and what is
\*     new stands right after the [dependencies] header.
\* ------------------------------------------------------------------------

\* the header of the section line i stands in, "" before the first section
SectionAt(text, i) ==
    LET h == {n \in 1..(i - 1) : IsSectionHeader(text[n])}
    IN  IF h = {} THEN "" ELSE text[CHOOSE n \in h : \A m \in h : m <= n]

\* line i declares the library: an entry of the section [dependencies], or
\* the head of the table [dependencies.name]
DeclaresAt(text, i, name) ==
    \/ IsTableOf(text[i], name)
    \/ IsEntryOf(text[i], name) /\ IsHeader(SectionAt(text, i))

Declarations(text, name) ==
    SelectSeq([i \in DOMAIN text |-> IF DeclaresAt(text, i, name) THEN text[i] ELSE ""],
              LAMBDA l : l # "")

\* after is before with lines put in behind line h, and those lines stand
\* right after a [dependencies] header
InsertedAfterHeader(before, after) ==
    \E h \in 0..Len(before) :
        LET m == Len(after) - Len(before)
        IN  /\ m >= 0
            /\ SubSeq(after, 1, h) = SubSeq(before, 1, h)
            /\ SubSeq(after, h + 1 + m, Len(after)) = SubSeq(before, h + 1, Len(before))
            /\ \/ m = 0
               \/ h > 0 /\ IsHeader(before[h])
               \/ IsHeader(after[h + 1])

C20_DeclaredStaysAsItIs ==
    \A k \in DOMAIN history :
        k > 1 /\ history[k - 1].exists =>
            LET before == history[k - 1].text
                after == history[k].text
            IN  /\ InsertedAfterHeader(before, after)
                /\ \A n \in DOMAIN dependencies :
                       Len(Declarations(before, dependencies[n].name)) = 1 =>
                           Declarations(after, dependencies[n].name)
                               = Declarations(before, dependencies[n].name)

\* ------------------------------------------------------------------------
\* The repair prompt
\* ------------------------------------------------------------------------

\* the events of the log before position k
Before(k) == SubSeq(log, 1, k - 1)

\* the project directory after the first n writes of ws, each write leaving
\* in its file what its event recorded
RECURSIVE TreeAfter(_, _)
TreeAfter(ws, n) ==
    IF n = 0 THEN InitialTree
    ELSE [TreeAfter(ws, n - 1) EXCEPT ![TargetOf(ws[n].path)] = ws[n].after]

\* the project directory as the writes issued before position k left it
TreeBefore(k) ==
    LET ws == SelectSeq(Before(k), IsWrite)
    IN  TreeAfter(ws, Len(ws))

\* the builds run before position k; the iteration under way at position k
\* is their number, since every iteration starts with one build
BuildsBefore(k) == SelectSeq(Before(k), IsBuild)

\* ------------------------------------------------------------------------
\* C21  The prompt handed to the oracle in iteration i carries the transcript
\*      of the build of iteration i, which failed, and of no earlier build;
\*      the numbers i and max_iterations; and, for every file the project
\*      reader recognises, its content as the writes of the iterations
\*      before i left it.
\* ------------------------------------------------------------------------

C21_PromptIsCurrent ==
    \A k \in DOMAIN log :
        IsOracle(log[k]) =>
            LET p == log[k].prompt
                bs == BuildsBefore(k)
                i == Len(bs)
            IN  /\ i >= 1
                /\ ~bs[i].success
                /\ p.cargo_output = bs[i].transcript
                /\ \A j \in 1..(i - 1) : p.cargo_output # bs[j].transcript
                /\ p.iteration = i
                /\ p.max_iterations = max_iterations
                /\ \A j \in DOMAIN Before(k) :
                       IsWrite(log[j]) => log[j].iteration < i
                /\ p.files = read_project_files(TreeBefore(k))

\* the oracle is asked in the second iteration, after a patch of the first
\* iteration changed a file that the prompt shows
C21_Witness ==
    \E k \in DOMAIN log :
        /\ IsOracle(log[k])
        /\ log[k].prompt.iteration = 2
        /\ log[k].prompt.cargo_output = Transcript(2)
        /\ log[k].prompt.files # read_project_files(InitialTree)
        /\ \E j \in DOMAIN Before(k) : IsWrite(log[j]) /\ log[j].ok

\* ------------------------------------------------------------------------
\* C22  Applying a PatchSet touches files inside the project directory only:
\*      whatever path the reply declares, every write of the loop targets a
\*      file under project_dir, and no file outside it is created or changed.
\* ------------------------------------------------------------------------

C22_WritesStayInside ==
    /\ \A k \in DOMAIN log :
           IsWrite(log[k]) => TargetOf(log[k].path).inside
    /\ \A loc \in Locations :
           ~loc.inside => files[loc] = InitialTree[loc]

====
